---- MODULE Spec2Model ----
(***************************************************************************)
(* The market creation workflow of backend/index.py                       *)
(* (MarketCreationWorkflow and the helpers it calls).                      *)
(*                                                                         *)
(* A Python str is a sequence of one-character strings, so that the        *)
(* substring tests, strip(), lower(), re.search and strptime of the code   *)
(* are computed and not assumed.  A datetime is its proleptic Gregorian    *)
(* ordinal (datetime.toordinal(): days since 0001-01-01 = 1).  A float is  *)
(* its value in hundredths (0.65 is 65).  An Optional[str] that is None is  *)
(* NoneStr, an Optional[datetime] that is None is 0 (no ordinal is 0).     *)
(***************************************************************************)
EXTENDS Integers, Sequences, FiniteSets, TLC

\* None where a str is expected: not a sequence of characters
NoneStr == <<"None">>

Min(S) == CHOOSE x \in S : \A y \in S : x <= y
Max(S) == CHOOSE x \in S : \A y \in S : x >= y

(***************************************************************************)
(* str                                                                     *)
(***************************************************************************)
Digits == <<"0", "1", "2", "3", "4", "5", "6", "7", "8", "9">>
UpperCase == <<"A", "B", "C", "D", "E", "F", "G", "H", "I", "J", "K", "L", "M",
               "N", "O", "P", "Q", "R", "S", "T", "U", "V", "W", "X", "Y", "Z">>
LowerCase == <<"a", "b", "c", "d", "e", "f", "g", "h", "i", "j", "k", "l", "m",
               "n", "o", "p", "q", "r", "s", "t", "u", "v", "w", "x", "y", "z">>

IsDigit(c) == \E i \in DOMAIN Digits : Digits[i] = c
DigitVal(c) == (CHOOSE i \in DOMAIN Digits : Digits[i] = c) - 1
IsSpace(c) == c = " "

lower_char(c) ==
    IF \E i \in DOMAIN UpperCase : UpperCase[i] = c
    THEN LowerCase[CHOOSE i \in DOMAIN UpperCase : UpperCase[i] = c]
    ELSE c

\* str.lower()
lower(s) == [i \in 1..Len(s) |-> lower_char(s[i])]

\* str.strip()
strip(s) ==
    LET keep == {i \in 1..Len(s) : ~IsSpace(s[i])}
    IN  IF keep = {} THEN <<>> ELSE SubSeq(s, Min(keep), Max(keep))

\* sub in s
Contains(sub, s) ==
    \E i \in 0..(Len(s) - Len(sub)) : SubSeq(s, i + 1, i + Len(sub)) = sub

\* s.startswith(pre)
StartsWith(s, pre) == Len(pre) <= Len(s) /\ SubSeq(s, 1, Len(pre)) = pre

AllDigits(s) == \A i \in 1..Len(s) : IsDigit(s[i])

\* int(s) of a string of decimal digits
RECURSIVE ToInt(_)
ToInt(s) ==
    IF Len(s) = 0 THEN 0
    ELSE 10 * ToInt(SubSeq(s, 1, Len(s) - 1)) + DigitVal(s[Len(s)])

\* re.search(r'(\d+)', s).group(1): the leftmost maximal run of digits, <<>>
\* when s holds no digit (no match)
FirstDigits(s) ==
    LET at == {i \in 1..Len(s) : IsDigit(s[i])}
    IN  IF at = {} THEN <<>>
        ELSE LET first == Min(at)
                 last == Max({j \in first..Len(s) :
                                 \A k \in first..j : IsDigit(s[k])})
             IN  SubSeq(s, first, last)

\* the digits of s without its leading zeros
RECURSIVE NoLeadingZeros(_)
NoLeadingZeros(s) ==
    IF Len(s) > 1 /\ s[1] = "0" THEN NoLeadingZeros(Tail(s)) ELSE s

(***************************************************************************)
(* datetime                                                                *)
(***************************************************************************)
IsLeap(y) == (y % 4 = 0) /\ ((y % 100 # 0) \/ (y % 400 = 0))

DaysInMonth(y, m) ==
    IF m = 2 THEN (IF IsLeap(y) THEN 29 ELSE 28)
    ELSE IF m \in {4, 6, 9, 11} THEN 30 ELSE 31

RECURSIVE DaysBeforeMonth(_, _)
DaysBeforeMonth(y, m) ==
    IF m = 1 THEN 0 ELSE DaysBeforeMonth(y, m - 1) + DaysInMonth(y, m - 1)

\* datetime(y, m, d).toordinal()
ymd2ord(y, m, d) ==
    (y - 1) * 365 + ((y - 1) \div 4) - ((y - 1) \div 100) + ((y - 1) \div 400)
    + DaysBeforeMonth(y, m) + d

\* datetime.max: 9999-12-31
MaxOrdinal == ymd2ord(9999, 12, 31)

\* datetime(y, m, d) raises ValueError unless the date exists
ValidDate(y, m, d) ==
    /\ y \in 1..9999
    /\ m \in 1..12
    /\ d \in 1..DaysInMonth(y, m)

MonthNames == <<
    <<"j", "a", "n", "u", "a", "r", "y">>,
    <<"f", "e", "b", "r", "u", "a", "r", "y">>,
    <<"m", "a", "r", "c", "h">>,
    <<"a", "p", "r", "i", "l">>,
    <<"m", "a", "y">>,
    <<"j", "u", "n", "e">>,
    <<"j", "u", "l", "y">>,
    <<"a", "u", "g", "u", "s", "t">>,
    <<"s", "e", "p", "t", "e", "m", "b", "e", "r">>,
    <<"o", "c", "t", "o", "b", "e", "r">>,
    <<"n", "o", "v", "e", "m", "b", "e", "r">>,
    <<"d", "e", "c", "e", "m", "b", "e", "r">> >>

\* %b: the first three letters of the month's name
MonthAbbrs == [i \in DOMAIN MonthNames |-> SubSeq(MonthNames[i], 1, 3)]

\* strptime's %Y: exactly four digits
FieldY(f) == IF Len(f) = 4 /\ AllDigits(f) THEN ToInt(f) ELSE 0

\* strptime's %m: 1[0-2]|0[1-9]|[1-9]
FieldM(f) ==
    IF Len(f) \in {1, 2} /\ AllDigits(f) /\ ToInt(f) \in 1..12 THEN ToInt(f) ELSE 0

\* strptime's %d: 3[0-1]|[1-2]\d|0[1-9]|[1-9]| [1-9]
FieldD(f) ==
    IF Len(f) \in {1, 2} /\ AllDigits(f) /\ ToInt(f) \in 1..31 THEN ToInt(f)
    ELSE IF Len(f) = 2 /\ f[1] = " " /\ IsDigit(f[2]) /\ f[2] # "0"
         THEN DigitVal(f[2])
         ELSE 0

\* the date fields as an ordinal; 0 where strptime raises ValueError
DateOf(y, m, d) ==
    IF y = 0 \/ m = 0 \/ d = 0 \/ ~ValidDate(y, m, d) THEN 0
    ELSE ymd2ord(y, m, d)

\* the three fields of s around exactly two separators; <<>> otherwise
Fields(s, sep) ==
    LET at == {i \in 1..Len(s) : s[i] = sep}
    IN  IF Cardinality(at) # 2 THEN <<>>
        ELSE LET p == Min(at)
                 q == Max(at)
             IN  << SubSeq(s, 1, p - 1), SubSeq(s, p + 1, q - 1),
                    SubSeq(s, q + 1, Len(s)) >>

\* datetime.strptime(s, "%Y-%m-%d")
strptime_Ymd(s) ==
    LET f == Fields(s, "-")
    IN  IF f = <<>> THEN 0
        ELSE DateOf(FieldY(f[1]), FieldM(f[2]), FieldD(f[3]))

\* datetime.strptime(s, "%m/%d/%Y")
strptime_mdY(s) ==
    LET f == Fields(s, "/")
    IN  IF f = <<>> THEN 0
        ELSE DateOf(FieldY(f[3]), FieldM(f[1]), FieldD(f[2]))

\* datetime.strptime(s, "%d/%m/%Y")
strptime_dmY(s) ==
    LET f == Fields(s, "/")
    IN  IF f = <<>> THEN 0
        ELSE DateOf(FieldY(f[3]), FieldM(f[2]), FieldD(f[1]))

\* the number of leading spaces of s
LeadingSpaces(s) ==
    Max({n \in 0..Len(s) : \A i \in 1..n : IsSpace(s[i])})

\* datetime.strptime(s, "<name> %d, %Y") with the month's name taken from
\* names (matched ignoring case): name \s+ day , \s+ year
strptime_named(s, names) ==
    LET low == lower(s)
        hits == {i \in DOMAIN names : StartsWith(low, names[i])}
        parse(i) ==
            LET r == SubSeq(low, Len(names[i]) + 1, Len(low))
                n == LeadingSpaces(r)
                t == SubSeq(r, n + 1, Len(r))
                commas == {j \in 1..Len(t) : t[j] = ","}
            IN  IF n = 0 \/ Cardinality(commas) # 1 THEN 0
                ELSE LET c == Min(commas)
                         u == SubSeq(t, c + 1, Len(t))
                         k == LeadingSpaces(u)
                         df == SubSeq(t, 1, c - 1)
                         dd == IF AllDigits(df) THEN FieldD(df) ELSE 0
                     IN  IF k = 0 THEN 0
                         ELSE DateOf(FieldY(SubSeq(u, k + 1, Len(u))), i, dd)
        good == {i \in hits : parse(i) # 0}
    IN  IF good = {} THEN 0 ELSE parse(Min(good))

\* datetime.strptime(s, "%B %d, %Y")
strptime_BdY(s) == strptime_named(s, MonthNames)

\* datetime.strptime(s, "%b %d, %Y")
strptime_bdY(s) == strptime_named(s, MonthAbbrs)

(***************************************************************************)
(* AIMarketAssistant: the rule-based analysis                              *)
(***************************************************************************)
creation_keywords == <<
    <<"w", "i", "l", "l">>,
    <<"b", "e", "t">>,
    <<"p", "r", "e", "d", "i", "c", "t">>,
    <<"m", "a", "r", "k", "e", "t">>,
    <<"o", "d", "d", "s">>,
    <<"h", "a", "p", "p", "e", "n">>,
    <<"o", "c", "c", "u", "r">> >>

politics_words == <<
    <<"e", "l", "e", "c", "t", "i", "o", "n">>,
    <<"v", "o", "t", "e">>,
    <<"p", "r", "e", "s", "i", "d", "e", "n", "t">>,
    <<"c", "o", "n", "g", "r", "e", "s", "s">>,
    <<"s", "e", "n", "a", "t", "e">>,
    <<"d", "o", "j">>,
    <<"r", "e", "p", "u", "b", "l", "i", "c", "a", "n">>,
    <<"d", "e", "m", "o", "c", "r", "a", "t">> >>

economics_words == <<
    <<"s", "t", "o", "c", "k">>,
    <<"m", "a", "r", "k", "e", "t">>,
    <<"e", "c", "o", "n", "o", "m", "y">>,
    <<"i", "n", "f", "l", "a", "t", "i", "o", "n">>,
    <<"f", "e", "d">>,
    <<"g", "d", "p">>,
    <<"b", "i", "t", "c", "o", "i", "n">>,
    <<"c", "r", "y", "p", "t", "o">> >>

sports_words == <<
    <<"g", "a", "m", "e">>,
    <<"s", "p", "o", "r", "t">>,
    <<"t", "e", "a", "m">>,
    <<"c", "h", "a", "m", "p", "i", "o", "n", "s", "h", "i", "p">>,
    <<"p", "l", "a", "y", "e", "r">> >>

technology_words == <<
    <<"t", "e", "c", "h">>,
    <<"a", "i">>,
    <<"s", "o", "f", "t", "w", "a", "r", "e">>,
    <<"a", "p", "p">>,
    <<"s", "t", "a", "r", "t", "u", "p">> >>

\* any(word in text for word in words)
AnyIn(words, text) == \E i \in DOMAIN words : Contains(words[i], text)

_categorize_simple(text) ==
    IF AnyIn(politics_words, text) THEN "politics"
    ELSE IF AnyIn(economics_words, text) THEN "economics"
    ELSE IF AnyIn(sports_words, text) THEN "sports"
    ELSE IF AnyIn(technology_words, text) THEN "technology"
    ELSE "general"

\* re.search(r'will\s+([^?]+?)(\?|$)', text): group(1).strip() of the
\* leftmost match, NoneStr when nothing matches.  At a "will" followed by k
\* spaces the greedy \s+ takes them all when a character other than "?"
\* follows, and the group runs (lazily) to the first "?" or to the end; when
\* "?" or the end follows and k > 1 the \s+ gives one space back, which is
\* the whole group; when k = 1 there is no match at that "will".
extracted_event(text) ==
    LET n == Len(text)
        spaces(i) == LeadingSpaces(SubSeq(text, i + 4, n))
        group(i) ==
            LET g == i + 4 + spaces(i)
            IN  IF g <= n /\ text[g] # "?"
                THEN LET stop == {e \in g..n : text[e] = "?"}
                     IN  SubSeq(text, g, IF stop = {} THEN n ELSE Min(stop) - 1)
                ELSE <<" ">>
        at == {i \in 1..(n - 3) :
                 /\ SubSeq(text, i, i + 3) = <<"w", "i", "l", "l">>
                 /\ spaces(i) >= 1
                 /\ LET g == i + 4 + spaces(i)
                    IN  (g <= n /\ text[g] # "?") \/ spaces(i) >= 2}
    IN  IF at = {} THEN NoneStr ELSE strip(group(Min(at)))

\* AIMarketAssistant._fallback_intent_analysis: the keys the workflow reads
_fallback_intent_analysis(user_message) ==
    LET message_lower == lower(user_message)
        has_creation_intent == AnyIn(creation_keywords, message_lower)
        event == extracted_event(message_lower)
    IN  [ intent |-> IF has_creation_intent THEN "create_market"
                     ELSE "general_inquiry",
          suggested_question |->
              IF event # NoneStr /\ event # <<>>
              THEN <<"W", "i", "l", "l", " ">> \o event \o <<"?">>
              ELSE NoneStr,
          category |-> _categorize_simple(message_lower) ]

(***************************************************************************)
(* MarketCreationWorkflow: validation and date parsing                     *)
(***************************************************************************)
step_names == <<"question_clarification", "timeframe", "resolution_criteria",
                "final_review">>

timeframe_words == <<
    <<"d", "a", "y">>,
    <<"w", "e", "e", "k">>,
    <<"m", "o", "n", "t", "h">>,
    <<"y", "e", "a", "r">> >>

confirm_words == <<
    <<"c", "o", "n", "f", "i", "r", "m">>,
    <<"y", "e", "s">>,
    <<"p", "r", "o", "c", "e", "e", "d">>,
    <<"c", "r", "e", "a", "t", "e">> >>

\* the first format of _parse_date's list that strptime accepts; 0 when
\* every one raises ValueError
parse_formats(s) ==
    IF strptime_Ymd(s) # 0 THEN strptime_Ymd(s)
    ELSE IF strptime_BdY(s) # 0 THEN strptime_BdY(s)
    ELSE IF strptime_bdY(s) # 0 THEN strptime_bdY(s)
    ELSE IF strptime_mdY(s) # 0 THEN strptime_mdY(s)
    ELSE strptime_dmY(s)

\* datetime.now() + timedelta(days = int(digits) * unit) raises OverflowError
\* when the date is past datetime.max (a count of 8 digits or more always is)
Overflows(digits, unit, now) ==
    \/ Len(NoLeadingZeros(digits)) > 7
    \/ now + ToInt(digits) * unit > MaxOrdinal

\* MarketCreationWorkflow._parse_date at time now: date is the datetime
\* returned (0 for None), raised tells that the call raised OverflowError
_parse_date(date_str, now) ==
    LET s == strip(date_str)
        low == lower(s)
        num == FirstDigits(s)
        relative(unit) ==
            IF Overflows(num, unit, now) THEN [raised |-> TRUE, date |-> 0]
            ELSE [raised |-> FALSE, date |-> now + ToInt(num) * unit]
    IN  IF parse_formats(s) # 0 THEN [raised |-> FALSE, date |-> parse_formats(s)]
        ELSE IF Contains(<<"d", "a", "y">>, low) /\ num # <<>> THEN relative(1)
        ELSE IF Contains(<<"w", "e", "e", "k">>, low) /\ num # <<>> THEN relative(7)
        ELSE IF Contains(<<"m", "o", "n", "t", "h">>, low) /\ num # <<>>
             THEN relative(30)
        ELSE [raised |-> FALSE, date |-> 0]

\* the question mark not asked for
validate_question_clarification_any_text(response) ==
    IF strip(response) = <<>>
    THEN [valid |-> FALSE,
          message |-> "Please provide a question for your market."]
    ELSE [valid |-> TRUE, message |-> "Question looks good!"]

\* the question_clarification branch of _validate_step_response
\* (lines 545-550)
validate_question_clarification(response) ==
    IF strip(response) = <<>>
    THEN [valid |-> FALSE,
          message |-> "Please provide a question for your market."]
    ELSE IF ~Contains(<<"?">>, response)
    THEN [valid |-> FALSE,
          message |-> "Please format as a Yes/No question ending with ?"]
    ELSE [valid |-> TRUE, message |-> "Question looks good!"]

\* MarketCreationWorkflow._validate_step_response.  In the timeframe branch
\* _parse_date is reached only without "day", "week" or "month" in the
\* response, so it cannot raise there and the except branch is dead.
_validate_step_response(step_name, response, now) ==
    IF step_name = "question_clarification"
    THEN validate_question_clarification(response)
    ELSE IF step_name = "timeframe"
    THEN IF AnyIn(timeframe_words, lower(response))
         THEN [valid |-> TRUE, message |-> "Timeframe accepted."]
         ELSE IF _parse_date(response, now).date # 0
         THEN [valid |-> TRUE, message |-> "Market will resolve on"]
         ELSE [valid |-> FALSE,
               message |-> "Please provide a clearer timeframe"]
    ELSE IF step_name = "resolution_criteria"
    THEN IF Len(strip(response)) < 10
         THEN [valid |-> FALSE,
               message |-> "Please provide more detailed resolution criteria."]
         ELSE [valid |-> TRUE, message |-> "Resolution criteria accepted."]
    ELSE IF step_name = "final_review"
    THEN IF \E i \in DOMAIN confirm_words : strip(lower(response)) = confirm_words[i]
         THEN [valid |-> TRUE, message |-> "Confirmed! Creating your market..."]
         ELSE [valid |-> TRUE,
               message |-> "Please specify changes or type \"confirm\" to proceed."]
    ELSE [valid |-> TRUE, message |-> "Input accepted."]

(***************************************************************************)
(* Inputs                                                                  *)
(***************************************************************************)
\* the session ids the model lets hash(...) % 1000000 take
NumIds == 2
\* how far the clock advances
MaxTicks == 1
\* the cap of the count of validated responses
MaxValidated == 5
\* the threads that serve continue requests
NumThreads == 2

SessionIdModulus == 1000000

\* hash(user_message + str(datetime.now())): two values for each residue
HashValues ==
    {i + k * SessionIdModulus : i \in 0..(NumIds - 1), k \in 0..1}

SessionIds == {h % SessionIdModulus : h \in HashValues}

\* datetime.now() when the server starts
Today == ymd2ord(2026, 1, 1)

m_will == <<"W", "i", "l", "l", " ", "b", "t", "c", " ", "w", "i", "n", "?">>
m_hi == <<"h", "i">>
m_bet == <<"b", "e", "t">>

Messages == {m_will, m_hi, m_bet}

\* what the text-generation capability may answer to analyze_user_intent
LLMReplies ==
    { [ intent |-> "create_market",
        suggested_question |-> <<"W", "i", "l", "l", " ", "X", "?">>,
        category |-> "general" ],
      [ intent |-> "unclear",
        suggested_question |-> NoneStr,
        category |-> "general" ] }

r_empty == <<>>
r_question == <<"U", "p", "?">>
r_days == <<"3", " ", "d", "a", "y", "s">>
r_someday == <<"s", "o", "m", "e", "d", "a", "y">>
r_past == <<"2", "0", "2", "0", "-", "0", "1", "-", "0", "1">>
r_huge == <<"9", "9", "9", "9", "9", "9", "9", " ", "d", "a", "y", "s">>
r_confirm == <<"c", "o", "n", "f", "i", "r", "m">>
r_blank == <<" ", " ">>

r_all == <<"3", " ", "d", "a", "y", "s", " ", "o", "k", "?">>

Responses ==
    {r_empty, r_question, r_days, r_someday, r_past, r_huge, r_confirm, r_blank}

\* a response every step accepts, and one the first three steps reject
FewResponses == {r_all, r_empty}

AllResponses == Responses \cup FewResponses

UserIds == {"u1"}

\* two values of the hash with the same residue, and the session id of both
CollidingHashes == {7, 7 + SessionIdModulus}
CollidingId == 7 % SessionIdModulus

\* the instants of the model
Times == Today..(Today + MaxTicks)

\* _fallback_intent_analysis, _validate_step_response and
\* _update_proposal_from_step's _parse_date over the inputs of the model
fallback_analyses == [m \in Messages |-> _fallback_intent_analysis(m)]

validations ==
    [n \in {step_names[i] : i \in DOMAIN step_names} |->
        [r \in AllResponses |-> [t \in Times |-> _validate_step_response(n, r, t)]]]

parsed_dates == [r \in AllResponses |-> [t \in Times |-> _parse_date(r, t)]]

(***************************************************************************)
(* MarketCreationWorkflow: steps and proposals                             *)
(***************************************************************************)
\* validation_result = None
NoValidation == [valid |-> FALSE, message |-> "None"]

prompts == <<
    "Let's refine your prediction question. Please provide a clear Yes/No question about a future event.",
    "When should this market resolve? Please provide a specific date or timeframe.",
    "How should this market be resolved? What sources should we check to determine the outcome?",
    "Please review the market details. Type 'confirm' to proceed with creation, or suggest any changes." >>

\* MarketCreationStep(step_number, step_name, prompt, ai_suggestion)
MarketCreationStep(step_number, ai_suggestion) ==
    [ step_number |-> step_number,
      step_name |-> step_names[step_number],
      prompt |-> prompts[step_number],
      user_input |-> NoneStr,
      ai_suggestion |-> ai_suggestion,
      validation_result |-> NoValidation ]

\* AIMarketAssistant._fallback_resolution_criteria(...)['criteria']
_fallback_resolution_criteria(event_description) ==
    <<"Will be resolved based on official announcements and major news sources regarding: ">>
    \o event_description

\* MarketCreationWorkflow._determine_next_step with the step number it
\* computed from the length of the list (line 505)
next_step_for(current_step_num, proposal) ==
    IF current_step_num = 1
    THEN MarketCreationStep(1,
            IF proposal.description # NoneStr /\ proposal.description # <<>>
            THEN proposal.description
            ELSE <<"Will [specific event] happen by [specific date]?">>)
    ELSE IF current_step_num = 2
    THEN MarketCreationStep(2, <<"30 days from now">>)
    ELSE IF current_step_num = 3
    THEN MarketCreationStep(3, _fallback_resolution_criteria(proposal.description))
    ELSE MarketCreationStep(4,
            <<"Everything looks good! Ready to create your market.">>)

\* the step number taken one too far
_determine_next_step_skipping(proposal) ==
    next_step_for(Len(proposal.creation_steps) + 2, proposal)

_determine_next_step(proposal) ==
    next_step_for(Len(proposal.creation_steps) + 1, proposal)

\* the timeframe response stored as the resolution criteria as well
_update_proposal_from_step_twice(proposal, step_name, response, now) ==
    IF step_name = "question_clarification"
    THEN [raised |-> FALSE,
          proposal |-> [proposal EXCEPT !.description = strip(response)]]
    ELSE IF step_name = "timeframe"
    THEN LET parsed_date == parsed_dates[response][now]
         IN  IF parsed_date.raised THEN [raised |-> TRUE, proposal |-> proposal]
             ELSE IF parsed_date.date # 0
             THEN [raised |-> FALSE,
                   proposal |-> [proposal EXCEPT
                                    !.end_date = parsed_date.date,
                                    !.resolution_criteria = strip(response)]]
             ELSE [raised |-> FALSE, proposal |-> proposal]
    ELSE IF step_name = "resolution_criteria"
    THEN [raised |-> FALSE,
          proposal |-> [proposal EXCEPT !.resolution_criteria = strip(response)]]
    ELSE [raised |-> FALSE, proposal |-> proposal]

\* MarketCreationWorkflow._update_proposal_from_step: the proposal after
\* the call, and whether _parse_date raised (the proposal is then untouched)
_update_proposal_from_step(proposal, step_name, response, now) ==
    IF step_name = "question_clarification"
    THEN [raised |-> FALSE,
          proposal |-> [proposal EXCEPT !.description = strip(response)]]
    ELSE IF step_name = "timeframe"
    THEN LET parsed_date == parsed_dates[response][now]
         IN  IF parsed_date.raised THEN [raised |-> TRUE, proposal |-> proposal]
             ELSE IF parsed_date.date # 0
             THEN [raised |-> FALSE,
                   proposal |-> [proposal EXCEPT !.end_date = parsed_date.date]]
             ELSE [raised |-> FALSE, proposal |-> proposal]
    ELSE IF step_name = "resolution_criteria"
    THEN [raised |-> FALSE,
          proposal |-> [proposal EXCEPT !.resolution_criteria = strip(response)]]
    ELSE [raised |-> FALSE, proposal |-> proposal]

\* a probability of exactly 0.7 counted as high
_generate_recommendation_inclusive(proposal) ==
    IF proposal.ai_confidence < 60 THEN "moderate"
    ELSE IF proposal.ai_probability >= 70 THEN "yes"
    ELSE IF proposal.ai_probability < 30 THEN "no"
    ELSE "balanced"

\* MarketCreationWorkflow._generate_recommendation
_generate_recommendation(proposal) ==
    IF proposal.ai_confidence < 60 THEN "moderate"
    ELSE IF proposal.ai_probability > 70 THEN "yes"
    ELSE IF proposal.ai_probability < 30 THEN "no"
    ELSE "balanced"

\* the probability raised by each finalization
analysed_drifting(proposal) ==
    [proposal EXCEPT
        !.ai_probability = IF @ < 80 THEN @ + 15 ELSE @,
        !.ai_confidence = 75,
        !.key_factors = <<"Historical precedent", "Current trends", "Expert opinions">>,
        !.risk_factors = <<"Unexpected events", "Policy changes">>,
        !.data_quality_score = 80]

\* the assignments of MarketCreationWorkflow._finalize_market_proposal
analysed(proposal) ==
    [proposal EXCEPT
        !.ai_probability = 65,
        !.ai_confidence = 75,
        !.key_factors = <<"Historical precedent", "Current trends", "Expert opinions">>,
        !.risk_factors = <<"Unexpected events", "Policy changes">>,
        !.data_quality_score = 80]

\* SimplePredictiveModel.predict_probability, in hundredths
likelihood_words ==
    { <<"w", "i", "l", "l">>,
      <<"l", "i", "k", "e", "l", "y">>,
      <<"e", "x", "p", "e", "c", "t", "e", "d">> }

crypto_words ==
    { <<"b", "i", "t", "c", "o", "i", "n">>,
      <<"c", "r", "y", "p", "t", "o">> }

\* the likelihood words raise the probability of a crypto description too
predict_probability_likelihood_last(description, category) ==
    LET desc_lower == lower(description)
        likely == \E word \in likelihood_words : Contains(word, desc_lower)
        crypto == \E word \in crypto_words : Contains(word, desc_lower)
        probability == (IF crypto THEN 40 ELSE 50) + (IF likely THEN 10 ELSE 0)
        confidence == (IF crypto THEN 50 ELSE 60) + (IF likely THEN 10 ELSE 0)
    IN  [ probability |-> probability,
          confidence |-> confidence,
          key_factors |-> <<"Historical precedent analysis",
                            "Current market sentiment",
                            "Expert opinion trends">>,
          risk_factors |-> <<"Unexpected events could change outcome",
                             "Limited historical data for this type of event">>,
          data_quality_score |-> confidence ]

predict_probability(description, category) ==
    LET desc_lower == lower(description)
        likely == \E word \in likelihood_words : Contains(word, desc_lower)
        crypto == \E word \in crypto_words : Contains(word, desc_lower)
        probability == IF crypto THEN 40 ELSE IF likely THEN 50 + 10 ELSE 50
        adjusted == IF crypto THEN 50 ELSE IF likely THEN 60 + 10 ELSE 60
        confidence == IF category = "politics"
                      THEN Max({40, adjusted - 10}) ELSE adjusted
    IN  [ probability |-> Min({95, Max({5, probability})}),
          confidence |-> Min({90, Max({30, confidence})}),
          key_factors |-> <<"Historical precedent analysis",
                            "Current market sentiment",
                            "Expert opinion trends">>,
          risk_factors |-> <<"Unexpected events could change outcome",
                             "Limited historical data for this type of event">>,
          data_quality_score |-> confidence ]

\* the dict MarketCreationWorkflow._finalize_market_proposal returns;
\* f"{x:.1%}" is x in tenths of a percent, strftime('%Y-%m-%d') the day
final_result(proposal) ==
    [ success |-> TRUE,
      message |-> "Market proposal ready for creation!",
      proposal |-> [ id |-> proposal.id,
                     description |-> proposal.description,
                     end_date |-> proposal.end_date,
                     resolution_criteria |-> proposal.resolution_criteria,
                     category |-> proposal.category,
                     ai_analysis |-> [
                         probability |-> proposal.ai_probability * 10,
                         confidence |-> proposal.ai_confidence * 10,
                         key_factors |-> proposal.key_factors,
                         risk_factors |-> proposal.risk_factors,
                         recommendation |-> _generate_recommendation(proposal) ] ],
      ready_to_create |-> TRUE,
      session_id |-> proposal.id ]

\* the draft MarketProposal of start_market_creation (lines 429-442)
MarketProposal(session_id, intent_analysis, user_id, now) ==
    [ id |-> session_id,
      description |-> IF "suggested_question" \in DOMAIN intent_analysis
                      THEN intent_analysis.suggested_question ELSE <<>>,
      end_date |-> now + 30,
      category |-> IF "category" \in DOMAIN intent_analysis
                   THEN intent_analysis.category ELSE "general",
      resolution_criteria |-> <<>>,
      ai_probability |-> 50,
      ai_confidence |-> 0,
      key_factors |-> <<>>,
      risk_factors |-> <<>>,
      data_quality_score |-> 0,
      creation_steps |-> <<>>,
      status |-> "draft",
      user_id |-> user_id ]

\* proposal.creation_steps.append(step)
with_step(proposal, step) ==
    [proposal EXCEPT !.creation_steps = Append(@, step)]

\* the answered step appended as a new entry, not written in place
with_response_appended(proposal, k, user_response, validation) ==
    with_step(proposal,
              [proposal.creation_steps[k] EXCEPT
                  !.user_input = user_response,
                  !.validation_result = validation])

\* the response written on creation_steps[0], not on creation_steps[-1]
with_response_on_first(proposal, k, user_response, validation) ==
    [proposal EXCEPT !.creation_steps[1].user_input = user_response,
                     !.creation_steps[1].validation_result = validation]

\* current_step.user_input = ...; current_step.validation_result = ...
\* (lines 469-470) on the step at index k of the proposal
with_response(proposal, k, user_response, validation) ==
    [proposal EXCEPT !.creation_steps[k].user_input = user_response,
                     !.creation_steps[k].validation_result = validation]

(***************************************************************************)
(* State                                                                   *)
(***************************************************************************)
VARIABLES
    active_sessions,  \* self.active_sessions: session id -> reference
    heap,             \* the MarketProposal objects, by reference
    now,              \* datetime.now()
    result,           \* the last HTTP answer: status code and JSON body
    threads,          \* the continue requests in flight, one per thread
    validated         \* history: the validated responses of each proposal,
                      \* counted by the requests that run one at a time

vars == <<active_sessions, heap, now, result, threads, validated>>

\* a thread that serves no request
Idle ==
    [ pc |-> "idle", session_id |-> 0, user_response |-> <<>>, proposal |-> 0,
      current_step |-> 0, validation |-> NoValidation, current_step_num |-> 0 ]

\* the references reachable from the session table and from the threads
Live(sessions, thr) ==
    {sessions[s] : s \in DOMAIN sessions}
    \cup {thr[t].proposal : t \in {u \in DOMAIN thr : thr[u].pc # "idle"}}

\* a reference for a new object
NewRef(used) == Min({r \in 1..(Cardinality(used) + 1) : r \notin used})

Restrict(f, S) == [x \in S |-> f[x]]

Init ==
    /\ active_sessions = << >>
    /\ heap = << >>
    /\ now = Today
    /\ result = [code |-> 0, body |-> [success |-> TRUE]]
    /\ threads = [t \in 1..NumThreads |-> Idle]
    /\ validated = << >>

\* the answers of the two workflow methods
refused ==
    [ success |-> FALSE,
      message |-> "I don't see a market creation request in your message. Try asking something like 'Will X happen by Y date?'",
      suggestions |-> <<"Will Bitcoin reach $200,000 by end of 2026?",
                        "Will the next election have over 70% turnout?",
                        "Will OpenAI release GPT-5 this year?">> ]

step_answer(session_id, next_step) ==
    [ success |-> TRUE,
      session_id |-> session_id,
      current_step |-> next_step.step_number,
      prompt |-> next_step.prompt,
      ai_suggestion |-> next_step.ai_suggestion,
      progress |-> next_step.step_number ]

not_found ==
    [ success |-> FALSE,
      message |-> "Session not found. Please start a new market creation." ]

rejected(session_id, validation, current_step) ==
    [ success |-> FALSE,
      message |-> validation.message,
      retry_prompt |-> current_step.prompt,
      session_id |-> session_id ]

\* the route's except branch: jsonify({'success': False, 'error': str(e)}), 500
internal_error(e) == [code |-> 500, body |-> [success |-> FALSE, error |-> e]]

\* return jsonify(result)
ok(body) == [code |-> 200, body |-> body]

\* every proposal is the one object
stored_in_all(h, ref, proposal) == [r \in DOMAIN h |-> proposal]

\* the heap after the statements of a request changed the proposal it took
\* from the table (proposal = self.active_sessions[session_id], line 464)
stored(h, ref, proposal) == [h EXCEPT ![ref] = proposal]

\* the table holds the new session only
registered_alone(session_id, proposal) ==
    LET sessions == [s \in {session_id} |-> NewRef(Live(<< >>, threads))]
        kept == Live(sessions, threads)
    IN  /\ active_sessions' = sessions
        /\ heap' = [r \in kept |->
                       IF r = sessions[session_id] THEN proposal ELSE heap[r]]
        /\ validated' = [r \in kept |->
                            IF r = sessions[session_id] THEN 0 ELSE validated[r]]

\* self.active_sessions[session_id] = proposal (line 448): the entry a
\* session of that id had is replaced, and its proposal freed unless a
\* thread still holds it
registered(session_id, proposal) ==
    LET others == Restrict(active_sessions,
                           DOMAIN active_sessions \ {session_id})
        sessions == [s \in DOMAIN active_sessions \cup {session_id} |->
                        IF s = session_id
                        THEN NewRef(Live(others, threads))
                        ELSE active_sessions[s]]
        kept == Live(sessions, threads)
    IN  /\ active_sessions' = sessions
        /\ heap' = [r \in kept |->
                       IF r = sessions[session_id] THEN proposal ELSE heap[r]]
        /\ validated' = [r \in kept |->
                            IF r = sessions[session_id] THEN 0 ELSE validated[r]]

\* the session registered before the intent is looked at
start_market_creation_eager(user_message, user_id, h, intent_analysis) ==
    LET session_id == h % SessionIdModulus
        draft == MarketProposal(session_id, intent_analysis, user_id, now)
        next_step == _determine_next_step(draft)
    IN  /\ registered(session_id, with_step(draft, next_step))
        /\ result' = IF intent_analysis.intent # "create_market"
                     THEN ok(refused)
                     ELSE ok(step_answer(session_id, next_step))
        /\ UNCHANGED <<now, threads>>

\* POST /api/market/start: PredictionMarketAPI.start_market_creation around
\* MarketCreationWorkflow.start_market_creation
start_market_creation(user_message, user_id, h, intent_analysis) ==
    LET session_id == h % SessionIdModulus
    IN  IF intent_analysis.intent # "create_market"
        THEN /\ result' = ok(refused)
             /\ UNCHANGED <<active_sessions, heap, now, threads, validated>>
        ELSE LET draft == MarketProposal(session_id, intent_analysis, user_id, now)
                 next_step == _determine_next_step(draft)
             IN  /\ registered(session_id, with_step(draft, next_step))
                 /\ result' = ok(step_answer(session_id, next_step))
                 /\ UNCHANGED <<now, threads>>

\* the session table not looked at
create_market_unchecked(session_id, hd, hi) ==
    /\ result' = ok([ success |-> TRUE,
                      market_id |-> hd % 1000000,
                      message |-> "Market created successfully!",
                      blockchain_tx |-> hi ])
    /\ UNCHANGED <<active_sessions, heap, now, threads, validated>>

\* POST /api/market/create: hd is hash(proposal.description) and hi is
\* hash(proposal.id) % 10**16, a value of 16 hexadecimal digits; the
\* proposal is read and nothing is written
create_market(session_id, hd, hi) ==
    /\ result' = IF session_id \notin DOMAIN active_sessions
                 THEN [ code |-> 404,
                        body |-> [ success |-> FALSE,
                                   error |-> "Session not found" ] ]
                 ELSE ok([ success |-> TRUE,
                           market_id |-> hd % 1000000,
                           message |-> "Market created successfully!",
                           blockchain_tx |-> hi ])
    /\ UNCHANGED <<active_sessions, heap, now, threads, validated>>

\* POST /api/market/continue: PredictionMarketAPI.continue_market_creation
\* around MarketCreationWorkflow.continue_market_creation, run to its end
\* with no other request in between
\* (each local of the method is bound with \E over a one-element set, so
\* that it is computed once, as the assignment computes it)
continue_market_creation(session_id, user_response) ==
    IF session_id \notin DOMAIN active_sessions
    THEN /\ result' = ok(not_found)
         /\ UNCHANGED <<active_sessions, heap, now, threads, validated>>
    ELSE
    \E ref \in {active_sessions[session_id]} :
    \E k \in {Len(heap[ref].creation_steps)} :
    \E current_step \in {heap[ref].creation_steps[k]} :
    \E validation \in {validations[current_step.step_name][user_response][now]} :
    \E answered \in {with_response(heap[ref], k, user_response, validation)} :
        /\ UNCHANGED <<active_sessions, now, threads>>
        /\ validated' = [validated EXCEPT ![ref] =
                IF validation.valid /\ @ < MaxValidated THEN @ + 1 ELSE @]
        /\ IF ~validation.valid
           THEN /\ heap' = stored(heap, ref, answered)
                /\ result' = ok(rejected(session_id, validation, current_step))
           ELSE
           \E update \in {_update_proposal_from_step(
                              answered, current_step.step_name, user_response, now)} :
           \E proposal \in {update.proposal} :
                IF update.raised
                THEN /\ heap' = stored(heap, ref, answered)
                     /\ result' = internal_error("date value out of range")
                ELSE IF current_step.step_number < 4
                THEN \E next_step \in {_determine_next_step(proposal)} :
                        /\ heap' = stored(heap, ref, with_step(proposal, next_step))
                        /\ result' = ok(step_answer(session_id, next_step))
                ELSE \E final \in {analysed(proposal)} :
                        /\ heap' = stored(heap, ref, [final EXCEPT !.status = "ready"])
                        /\ result' = ok(final_result(final))

\* time passes
Tick ==
    /\ now < Today + MaxTicks
    /\ now' = now + 1
    /\ UNCHANGED <<active_sessions, heap, result, threads, validated>>

(***************************************************************************)
(* continue_market_creation statement by statement: Flask serves each      *)
(* request in a thread of its own, and each thread runs the coroutine in   *)
(* its own event loop (asyncio.run), so the statements of two requests     *)
(* interleave.                                                             *)
(***************************************************************************)
\* the thread t returns: its reference is dropped
returns(t, answer, h, v) ==
    \E thr \in {[threads EXCEPT ![t] = Idle]} :
    \E kept \in {Live(active_sessions, thr)} :
        /\ threads' = thr
        /\ heap' = Restrict(h, kept)
        /\ validated' = Restrict(v, kept)
        /\ result' = answer

\* lines 461-468: the lookup, creation_steps[-1] and the validation
t_begin(t, session_id, user_response) ==
    /\ threads[t].pc = "idle"
    /\ IF session_id \notin DOMAIN active_sessions
       THEN /\ result' = ok(not_found)
            /\ UNCHANGED <<active_sessions, heap, now, threads, validated>>
       ELSE \E ref \in {active_sessions[session_id]} :
            \E k \in {Len(heap[ref].creation_steps)} :
                /\ threads' = [threads EXCEPT ![t] =
                        [ pc |-> "input",
                          session_id |-> session_id,
                          user_response |-> user_response,
                          proposal |-> ref,
                          current_step |-> k,
                          validation |->
                              validations[heap[ref].creation_steps[k].step_name]
                                         [user_response][now],
                          current_step_num |-> 0 ]]
                /\ UNCHANGED <<active_sessions, heap, now, result, validated>>

\* line 469: current_step.user_input = user_response
t_input(t) ==
    \E my \in {threads[t]} :
        /\ my.pc = "input"
        /\ heap' = [heap EXCEPT
                ![my.proposal].creation_steps[my.current_step].user_input =
                    my.user_response]
        /\ threads' = [threads EXCEPT ![t].pc = "validation"]
        /\ UNCHANGED <<active_sessions, now, result, validated>>

\* lines 470-478: current_step.validation_result = validation, and the
\* return of a rejected response
t_validation(t) ==
    \E my \in {threads[t]} :
        /\ my.pc = "validation"
        /\ UNCHANGED <<active_sessions, now>>
        /\ \E h \in {[heap EXCEPT
                ![my.proposal].creation_steps[my.current_step].validation_result =
                    my.validation]} :
              IF my.validation.valid
              THEN /\ heap' = h
                   /\ threads' = [threads EXCEPT ![t].pc = "update"]
                   /\ UNCHANGED <<result, validated>>
              ELSE returns(t, ok(rejected(my.session_id, my.validation,
                                          h[my.proposal].creation_steps[my.current_step])),
                           h, validated)

\* line 481: _update_proposal_from_step
t_update(t) ==
    \E my \in {threads[t]} :
        /\ my.pc = "update"
        /\ UNCHANGED <<active_sessions, now>>
        /\ \E step \in {heap[my.proposal].creation_steps[my.current_step]} :
           \E update \in {_update_proposal_from_step(
                              heap[my.proposal], step.step_name,
                              my.user_response, now)} :
              IF update.raised
              THEN returns(t, internal_error("date value out of range"),
                           heap, validated)
              ELSE /\ heap' = [heap EXCEPT ![my.proposal] = update.proposal]
                   /\ threads' = [threads EXCEPT ![t].pc = "check"]
                   /\ UNCHANGED <<result, validated>>

\* lines 484-485 and 505: the test of current_step.step_number, and the
\* step number _determine_next_step takes from the length of the list
t_check(t) ==
    \E my \in {threads[t]} :
        /\ my.pc = "check"
        /\ \E step \in {heap[my.proposal].creation_steps[my.current_step]} :
              threads' = [threads EXCEPT ![t] =
                  IF step.step_number < 4
                  THEN [my EXCEPT !.pc = "append",
                                  !.current_step_num =
                                      Len(heap[my.proposal].creation_steps) + 1]
                  ELSE [my EXCEPT !.pc = "finalize"]]
        /\ UNCHANGED <<active_sessions, heap, now, result, validated>>

\* lines 507-541 and 486-495: the step is built and appended
t_append(t) ==
    \E my \in {threads[t]} :
        /\ my.pc = "append"
        /\ \E next_step \in {next_step_for(my.current_step_num, heap[my.proposal])} :
              returns(t, ok(step_answer(my.session_id, next_step)),
                      [heap EXCEPT ![my.proposal] = with_step(@, next_step)],
                      validated)
        /\ UNCHANGED <<active_sessions, now>>

\* lines 498-501: _finalize_market_proposal and proposal.status = "ready"
t_finalize(t) ==
    \E my \in {threads[t]} :
        /\ my.pc = "finalize"
        /\ \E final \in {analysed(heap[my.proposal])} :
              returns(t, ok(final_result(final)),
                      [heap EXCEPT ![my.proposal] = [final EXCEPT !.status = "ready"]],
                      validated)
        /\ UNCHANGED <<active_sessions, now>>

(***************************************************************************)
(* deploy.py: AIMarketAssistant.generate_prediction_markets and the        *)
(* /api/predict route.  The server keeps no state between requests; the    *)
(* answer of the last request is in result.                                *)
(***************************************************************************)
\* the year, month and day of an ordinal (datetime.fromordinal)
year_of(n) ==
    CHOOSE y \in (n \div 366)..(n \div 365 + 1) :
        ymd2ord(y, 1, 1) <= n /\ n < ymd2ord(y + 1, 1, 1)

month_of(n) ==
    CHOOSE m \in 1..12 :
        /\ ymd2ord(year_of(n), m, 1) <= n
        /\ n < ymd2ord(year_of(n), m, 1) + DaysInMonth(year_of(n), m)

day_of(n) == n - ymd2ord(year_of(n), month_of(n), 1) + 1

\* a number in decimal digits, padded with zeros to the given width
RECURSIVE zero_padded(_, _)
zero_padded(k, width) ==
    IF width = 0 THEN <<>>
    ELSE Append(zero_padded(k \div 10, width - 1), Digits[(k % 10) + 1])

\* datetime.strftime('%d/%m/%Y')
strftime_dmY(n) ==
    zero_padded(day_of(n), 2) \o <<"/">> \o zero_padded(month_of(n), 2)
    \o <<"/">> \o zero_padded(year_of(n), 4)

\* the fields of the dataclass MarketSuggestion
MarketSuggestionFields ==
    { "title", "question", "description", "context", "resolution_criteria",
      "sources", "end_date", "category", "ai_probability", "confidence",
      "sentiment_score", "key_factors" }

\* confidence=0.4 of the fallback suggestion, in hundredths
fallback_confidence == 40

\* AIMarketAssistant._fallback_suggestions
_fallback_suggestions(query, today) ==
    << [ title |->
             <<"P", "r", "e", "d", "i", "c", "t", "i", "o", "n", " ",
               "m", "a", "r", "k", "e", "t", ":", " ">>
             \o query,
         question |->
             <<"W", "i", "l", "l", " ">> \o query \o
             <<" ", "h", "a", "p", "p", "e", "n", " ", "b", "y", " ">>
             \o strftime_dmY(today + 60) \o <<"?">>,
         description |->
             <<"A", " ", "p", "r", "e", "d", "i", "c", "t", "i", "o",
               "n", " ", "m", "a", "r", "k", "e", "t", " ", "a", "b",
               "o", "u", "t", " ", "w", "h", "e", "t", "h", "e", "r", " ">>
             \o query \o
             <<" ", "w", "i", "l", "l", " ", "o", "c", "c", "u", "r", ".">>,
         context |->
             <<"T", "h", "i", "s", " ", "m", "a", "r", "k", "e", "t",
               " ", "a", "l", "l", "o", "w", "s", " ", "u", "s", "e",
               "r", "s", " ", "t", "o", " ", "p", "r", "e", "d", "i",
               "c", "t", " ", "t", "h", "e", " ", "l", "i", "k", "e",
               "l", "i", "h", "o", "o", "d", " ", "o", "f", " ">>
             \o query \o
             <<" ", "h", "a", "p", "p", "e", "n", "i", "n", "g", " ",
               "w", "i", "t", "h", "i", "n", " ", "t", "h", "e", " ",
               "s", "p", "e", "c", "i", "f", "i", "e", "d", " ", "t",
               "i", "m", "e", "f", "r", "a", "m", "e", ".">>,
         resolution_criteria |->
             <<"T", "h", "i", "s", " ", "m", "a", "r", "k", "e", "t",
               " ", "w", "i", "l", "l", " ", "r", "e", "s", "o", "l",
               "v", "e", " ", "t", "o", " ", "Y", "E", "S", " ", "i",
               "f", " ">>
             \o query \o
             <<" ", "o", "c", "c", "u", "r", "s", " ", "a", "s", " ",
               "d", "e", "s", "c", "r", "i", "b", "e", "d", ",", " ",
               "b", "a", "s", "e", "d", " ", "o", "n", " ", "r", "e",
               "l", "i", "a", "b", "l", "e", " ", "n", "e", "w", "s",
               " ", "s", "o", "u", "r", "c", "e", "s", " ", "a", "n",
               "d", " ", "o", "f", "f", "i", "c", "i", "a", "l", " ",
               "a", "n", "n", "o", "u", "n", "c", "e", "m", "e", "n",
               "t", "s", ".">>,
         sources |-> <<"Major news outlets", "Official announcements">>,
         end_date |-> strftime_dmY(today + 60),
         category |-> "general",
         ai_probability |-> 50,
         confidence |-> fallback_confidence,
         sentiment_score |-> 50,
         key_factors |-> <<"Market conditions", "Public interest",
                           "External factors">> ] >>

\* the queries of the model
q_btc == <<"b", "t", "c">>
Queries == {q_btc, <<"r", "a", "i", "n">>, <<"a", "i">>, <<>>}

\* _fallback_suggestions over the inputs of the model
fallback_suggestions ==
    [query \in Queries |-> [today \in Times |-> _fallback_suggestions(query, today)]]

\* json.loads(content) and MarketSuggestion(**data) for each data (lines
\* 103-104): the text has to be JSON, and each object has to have exactly
\* the fields of MarketSuggestion, or a TypeError is raised
parses(reply) ==
    /\ reply.kind = "json"
    /\ \A i \in DOMAIN reply.data : DOMAIN reply.data[i] = MarketSuggestionFields

\* AIMarketAssistant.generate_prediction_markets: replies[k] is what the
\* k-th call of generate_content_async would answer; the method makes one
\* call, and every exception is answered with the fallback
generate_prediction_markets(query, gemini_client, replies, today) ==
    IF ~gemini_client THEN fallback_suggestions[query][today]
    ELSE IF parses(replies[1]) THEN replies[1].data
    ELSE fallback_suggestions[query][today]

\* POST /api/predict: SimplifiedPredictionAPI.generate_prediction_markets
api_predict(query, gemini_client, replies) ==
    /\ \E suggestions \in
              {generate_prediction_markets(query, gemini_client, replies, now)} :
          result' = IF query = <<>>
                    THEN [ code |-> 400,
                           body |-> [ success |-> FALSE,
                                      error |-> "Query is required" ] ]
                    ELSE ok([ success |-> TRUE,
                              query |-> query,
                              prediction_markets |-> suggestions,
                              count |-> Len(suggestions) ])
    /\ UNCHANGED <<active_sessions, heap, now, threads, validated>>

\* end_date values of the objects the model may answer: the format asked
\* for in the prompt with a date months ahead, a date in the past and the
\* day of the request, a text that is no date, and null
d_ahead == <<"0", "1", "/", "0", "6", "/", "2", "0", "2", "6">>
EndDates ==
    { d_ahead,
      <<"0", "1", "/", "0", "1", "/", "2", "0", "2", "0">>,
      strftime_dmY(Today),
      <<"s", "o", "o", "n">>,
      NoneStr }

\* one object of the JSON array
suggestion_data(end_date) ==
    [ title |-> <<"T">>,
      question |-> <<"Q", "?">>,
      description |-> <<"D">>,
      context |-> <<"C">>,
      resolution_criteria |-> <<"R">>,
      sources |-> <<"CoinMarketCap">>,
      end_date |-> end_date,
      category |-> "cryptocurrency",
      ai_probability |-> 70,
      confidence |-> 60,
      sentiment_score |-> 50,
      key_factors |-> <<"Adoption">> ]

\* an object without its end_date
without_end_date ==
    [f \in MarketSuggestionFields \ {"end_date"} |-> suggestion_data(d_ahead)[f]]

\* what one call of generate_content_async may do: raise, answer a text
\* json.loads rejects, or answer a JSON array of one or two objects
GeminiReplies ==
    { [kind |-> "raises", data |-> <<>>], [kind |-> "text", data |-> <<>>] }
    \cup { [kind |-> "json", data |-> <<suggestion_data(d)>>] : d \in EndDates }
    \cup { [kind |-> "json", data |-> <<suggestion_data(d), suggestion_data(e)>>] :
              d \in EndDates, e \in EndDates }
    \cup { [kind |-> "json", data |-> <<without_end_date>>],
           [kind |-> "json", data |-> <<suggestion_data(d_ahead), without_end_date>>] }

\* what a second call would be answered
LaterReplies ==
    { [kind |-> "raises", data |-> <<>>],
      [kind |-> "json", data |-> <<suggestion_data(d_ahead)>>] }

(***************************************************************************)
(* The endpoints of the two servers that read no session                   *)
(***************************************************************************)
\* descriptions and categories of the analyze requests
s_will_bitcoin == <<"W", "i", "l", "l", " ", "B", "i", "t", "c", "o", "i", "n", " ", "w", "i", "n">>
Descriptions ==
    { s_will_bitcoin,
      <<"c", "r", "y", "p", "t", "o">>,
      <<"l", "i", "k", "e", "l", "y">>,
      <<"e", "x", "p", "e", "c", "t", "e", "d">>,
      <<"W", "I", "L", "L">>,
      <<"r", "a", "i", "n">>,
      <<>>, NoneStr }

AnalyzeCategories == {"general", "politics", "cryptocurrency"}

\* POST /api/market/analyze of index.py: predict_probability on the
\* description and category of the request; description.lower() raises
\* AttributeError when the description is null
analyze_market(description, category) ==
    /\ result' = IF description = NoneStr
                 THEN internal_error("'NoneType' object has no attribute 'lower'")
                 ELSE ok([ success |-> TRUE,
                           analysis |-> predict_probability(description, category) ])
    /\ UNCHANGED <<active_sessions, heap, now, threads, validated>>

\* GET /api/health of index.py; the two keys are Config.OPENAI_API_KEY and
\* Config.REDDIT_CLIENT_ID being set
health_check(openai_api_key, reddit_client_id) ==
    /\ result' = ok([ status |-> "healthy",
                      timestamp |-> now,
                      services |-> [ database |-> TRUE,
                                     ai_assistant |-> openai_api_key,
                                     reddit |-> reddit_client_id,
                                     news_feeds |-> TRUE ] ])
    /\ UNCHANGED <<active_sessions, heap, now, threads, validated>>

\* GET /api/health of deploy.py
deploy_health_check(gemini_api_key) ==
    /\ result' = ok([ status |-> "healthy",
                      timestamp |-> now,
                      services |-> [ gemini |-> gemini_api_key, api |-> TRUE ],
                      message |-> "Prediction Markets Server - Forward queries to Gemini AI" ])
    /\ UNCHANGED <<active_sessions, heap, now, threads, validated>>

\* GET / of deploy.py
home ==
    /\ result' = ok([ message |-> "Prediction Markets Server",
                      description |-> "Forward queries to Gemini AI for yes/no prediction markets",
                      endpoints |-> <<"/api/predict", "/api/market/quick-prediction",
                                      "/api/market/analyze", "/api/health",
                                      "/api/debug/gemini">>,
                      usage |-> [ url |-> "/api/predict", method |-> "POST" ],
                      example_queries |-> <<"Will Bitcoin reach $200,000 by end of 2025?",
                                            "artificial intelligence developments",
                                            "Will the next US election have record turnout?">> ])
    /\ UNCHANGED <<active_sessions, heap, now, threads, validated>>

(***************************************************************************)
(* TrendAnalyzer.get_trending_topics.  Scores are in hundredths.  Of a     *)
(* TrendingTopic the model keeps title, source, engagement_score and       *)
(* ai_analysis, the fields the sort and its readers use.                   *)
(***************************************************************************)
market_potential_words ==
    { <<"w", "i", "l", "l">>,
      <<"e", "x", "p", "e", "c", "t", "e", "d">>,
      <<"p", "r", "e", "d", "i", "c", "t">>,
      <<"f", "o", "r", "e", "c", "a", "s", "t">>,
      <<"l", "i", "k", "e", "l", "y">> }

predictability_words ==
    { <<"e", "l", "e", "c", "t", "i", "o", "n">>,
      <<"r", "e", "l", "e", "a", "s", "e">>,
      <<"a", "n", "n", "o", "u", "n", "c", "e", "m", "e", "n", "t">>,
      <<"d", "e", "c", "i", "s", "i", "o", "n">> }

interest_level_words ==
    { <<"b", "r", "e", "a", "k", "i", "n", "g">>,
      <<"m", "a", "j", "o", "r">>,
      <<"s", "i", "g", "n", "i", "f", "i", "c", "a", "n", "t">>,
      <<"h", "i", "s", "t", "o", "r", "i", "c">> }

time_sensitivity_words ==
    { <<"t", "o", "d", "a", "y">>,
      <<"t", "o", "m", "o", "r", "r", "o", "w">>,
      <<"s", "o", "o", "n">>,
      <<"u", "r", "g", "e", "n", "t">>,
      <<"i", "m", "m", "e", "d", "i", "a", "t", "e">> }

\* any(word in text for word in words)
any_word_in(word_list, text) == \E word \in word_list : Contains(word, text)


\* TrendAnalyzer._analyze_market_potential
_analyze_market_potential(title, content) ==
    [ market_potential |->
          IF any_word_in(market_potential_words, lower(title \o <<" ">> \o content))
          THEN 70 ELSE 50,
      predictability |->
          IF any_word_in(predictability_words, lower(title \o <<" ">> \o content))
          THEN 70 ELSE 50,
      interest_level |->
          IF any_word_in(interest_level_words, lower(title \o <<" ">> \o content))
          THEN 80 ELSE 50,
      time_sensitivity |->
          IF any_word_in(time_sensitivity_words, lower(title \o <<" ">> \o content))
          THEN 80 ELSE 50,
      suggested_questions |->
          IF Contains(<<"w", "i", "l", "l">>, lower(title))
          THEN <<title \o <<"?">>>>
          ELSE <<SubSeq(title, 1, Min({Len(title), 50})) \o <<".", ".", ".">>>>,
      concerns |-> <<>> ]

\* TrendAnalyzer._create_trending_topic_from_reddit
_create_trending_topic_from_reddit(post) ==
    [ title |-> post.title,
      source |-> <<"r/", post.subreddit>>,
      engagement_score |-> post.score * 100,
      ai_analysis |-> _analyze_market_potential(post.title, post.text) ]

\* TrendAnalyzer._create_trending_topic_from_news
_create_trending_topic_from_news(article) ==
    [ title |-> article.title,
      source |-> <<article.source>>,
      engagement_score |-> article.relevance_score,
      ai_analysis |-> _analyze_market_potential(article.title, article.summary) ]

\* the key of the sort: t.engagement_score + t.ai_analysis.get('market_potential', 0)
sort_key_potential_only(t) == t.ai_analysis.market_potential

sort_key(t) == t.engagement_score + t.ai_analysis.market_potential

\* list.sort(key = sort_key, reverse = True): descending, and topics of
\* equal key keep the order they had
RECURSIVE inserted(_, _)
inserted(t, topics) ==
    IF topics = <<>> THEN <<t>>
    ELSE IF sort_key(Head(topics)) > sort_key(t)
         THEN <<Head(topics)>> \o inserted(t, Tail(topics))
         ELSE <<t>> \o topics

RECURSIVE sorted_descending(_)
sorted_descending(topics) ==
    IF topics = <<>> THEN <<>>
    ELSE inserted(Head(topics), sorted_descending(Tail(topics)))

\* seq[:n] for n >= 0
first_of(seq, n) == SubSeq(seq, 1, IF Len(seq) < n THEN Len(seq) ELSE n)

\* the posts of reddit_posts[:10] with a score above 1000, as topics
reddit_topics(reddit_posts) ==
    [ i \in DOMAIN SelectSeq(first_of(reddit_posts, 10), LAMBDA post : post.score > 1000) |->
        _create_trending_topic_from_reddit(
            SelectSeq(first_of(reddit_posts, 10), LAMBDA post : post.score > 1000)[i]) ]

\* the articles of news_articles[:10], as topics
news_topics(news_articles) ==
    [ i \in DOMAIN first_of(news_articles, 10) |->
        _create_trending_topic_from_news(news_articles[i]) ]

\* TrendAnalyzer.get_trending_topics: reddit_scraper tells whether
\* Config.REDDIT_CLIENT_ID is set, reddit_posts is what get_trending_posts
\* returns and news_articles what get_recent_news_batch returns
get_trending_topics(reddit_scraper, reddit_posts, news_articles, limit) ==
    first_of(sorted_descending(
                 (IF reddit_scraper THEN reddit_topics(reddit_posts) ELSE <<>>)
                 \o news_topics(news_articles)),
             limit)

\* a pass of get_trending_topics: result holds the configuration, what the
\* two scrapers returned and the limit asked for, and then the list returned
trending ==
    /\ "topics" \notin DOMAIN result.body
    /\ result' = [ code |-> 0,
                   body |-> [ reddit_scraper |-> result.body.reddit_scraper,
                              reddit_posts |-> result.body.reddit_posts,
                              news_articles |-> result.body.news_articles,
                              limit |-> result.body.limit,
                              topics |-> get_trending_topics(
                                  result.body.reddit_scraper, result.body.reddit_posts,
                                  result.body.news_articles, result.body.limit) ] ]
    /\ UNCHANGED <<active_sessions, heap, now, threads, validated>>

\* posts as RedditScraper.get_trending_posts returns them: a score above
\* 500 each, in descending order of score
reddit_post(title, score) ==
    [ title |-> title, text |-> <<>>, score |-> score, subreddit |-> "sports" ]

RedditPostLists ==
    LET posts == << reddit_post(<<"W", "i", "l", "l", " ", "A", " ", "w", "i", "n">>, 2000),
                    reddit_post(<<"B", " ", "w", "o", "n">>, 1001),
                    reddit_post(<<"C", " ", "w", "o", "n">>, 1000),
                    reddit_post(<<"W", "i", "l", "l", " ", "D", " ", "w", "i", "n">>, 600) >>
    IN  { SelectSeq(posts, LAMBDA post : post \in kept) :
            kept \in SUBSET {posts[i] : i \in 1..Len(posts)} }

\* articles as NewsRSSFeedScraper.get_recent_news_batch returns them, in
\* the order of the feeds
news_article(title) ==
    [ title |-> title, summary |-> <<>>,
      source |-> "https://feeds.bbci.co.uk/news/world/rss.xml",
      relevance_score |-> 100 ]

a_rain == news_article(<<"r", "a", "i", "n">>)
a_will == news_article(<<"w", "i", "l", "l", " ", "r", "a", "i", "n">>)
a_major == news_article(<<"m", "a", "j", "o", "r", " ", "v", "o", "t", "e">>)

\* the lists of up to three articles, and one of ten articles and then one
\* whose title has 'will'
NewsArticleLists ==
    { <<>>, [i \in 1..11 |-> IF i = 11 THEN a_will ELSE a_rain] }
    \cup { <<a>> : a \in {a_rain, a_will, a_major} }
    \cup { <<a, b>> : a \in {a_rain, a_will, a_major}, b \in {a_rain, a_will, a_major} }
    \cup { <<a, b, c>> : a \in {a_rain, a_will, a_major},
                         b \in {a_rain, a_will, a_major},
                         c \in {a_rain, a_will, a_major} }

\* the limits asked for; 20 is the default
Limits == {0, 1, 2, 3, 20}

(***************************************************************************)
(* _generate_recommendation as a function of the proposal it is given      *)
(***************************************************************************)
\* the values of ai_probability and of ai_confidence, in hundredths, and
\* the categories of the proposals it is applied to
Probabilities == {0, 5, 29, 30, 31, 50, 65, 69, 70, 71, 95, 100}
Confidences == {0, 30, 59, 60, 61, 75, 90}
Categories == {"general", "politics"}

\* one session whose proposal has the given analysis values
InitRecommend ==
    /\ active_sessions = [s \in {0} |-> 1]
    /\ \E probability \in Probabilities, confidence \in Confidences :
          \E category \in Categories :
              heap = [r \in {1} |->
                         [MarketProposal(0, fallback_analyses[m_will], "u1", Today)
                             EXCEPT !.ai_probability = probability,
                                    !.ai_confidence = confidence,
                                    !.category = category]]
    /\ now = Today
    /\ result = [code |-> 0, body |-> [success |-> TRUE]]
    /\ threads = [t \in 1..NumThreads |-> Idle]
    /\ validated = [r \in {1} |-> 0]

\* self._generate_recommendation(proposal), its value put in the answer
recommend(session_id) ==
    /\ session_id \in DOMAIN active_sessions
    /\ result' = ok([ success |-> TRUE,
                      recommendation |->
                          _generate_recommendation(heap[active_sessions[session_id]]) ])
    /\ UNCHANGED <<active_sessions, heap, now, threads, validated>>

(***************************************************************************)
(* Specifications                                                          *)
(***************************************************************************)
\* a start request with its inputs drawn from the given sets
Start(hashes, messages) ==
    \E user_message \in messages, user_id \in UserIds, h \in hashes :
        \E intent_analysis \in {fallback_analyses[user_message]} \cup LLMReplies :
            start_market_creation(user_message, user_id, h, intent_analysis)

\* a continue request with its inputs drawn from the given sets
Continue(ids, responses) ==
    \E session_id \in ids, user_response \in responses :
        continue_market_creation(session_id, user_response)

\* one session id, every response, one request at a time
Next ==
    \/ Start(CollidingHashes, Messages)
    \/ Continue({CollidingId}, Responses)
    \/ Tick

Spec == Init /\ [][Next]_vars

\* NumIds session ids, one request at a time
NextSessions ==
    \/ Start(HashValues, {m_will, m_hi})
    \/ Continue(SessionIds, FewResponses)

SpecSessions == Init /\ [][NextSessions]_vars

\* one session, started once, and the continue requests of NumThreads
\* threads interleaved
NextThreads ==
    \/ /\ active_sessions = << >>
       /\ Start({CollidingId}, {m_will})
    \/ \E t \in 1..NumThreads :
          \/ \E user_response \in FewResponses :
                t_begin(t, CollidingId, user_response)
          \/ t_input(t)
          \/ t_validation(t)
          \/ t_update(t)
          \/ t_check(t)
          \/ t_append(t)
          \/ t_finalize(t)

SpecThreads == Init /\ [][NextThreads]_vars

\* a create request with its inputs drawn from the given sets
Create(ids, hashes) ==
    \E session_id \in ids, hd \in hashes, hi \in hashes :
        create_market(session_id, hd, hi)

\* NumIds session ids, the three requests of a session, one at a time
NextCreate ==
    \/ Start(HashValues, {m_will, m_hi})
    \/ Continue(SessionIds, FewResponses)
    \/ Create(SessionIds, {0, 1})

SpecCreate == Init /\ [][NextCreate]_vars

\* the requests of one session and the requests that read no session
NextEndpoints ==
    \/ Start(CollidingHashes, Messages)
    \/ Continue({CollidingId, 0}, FewResponses)
    \/ Create({CollidingId, 0}, {0, 1})
    \/ \E description \in Descriptions, category \in AnalyzeCategories :
          analyze_market(description, category)
    \/ \E openai_api_key \in BOOLEAN, reddit_client_id \in BOOLEAN :
          health_check(openai_api_key, reddit_client_id)
    \/ \E gemini_api_key \in BOOLEAN : deploy_health_check(gemini_api_key)
    \/ home
    \/ \E query \in {q_btc, <<>>}, gemini_client \in BOOLEAN :
          \E first \in {r \in GeminiReplies : r.kind = "raises"}, later \in LaterReplies :
              api_predict(query, gemini_client, <<first, later>>)

SpecEndpoints == Init /\ [][NextEndpoints]_vars

\* a call of get_trending_topics about to be made
InitTrends ==
    /\ active_sessions = << >>
    /\ heap = << >>
    /\ now = Today
    /\ \E reddit_scraper \in BOOLEAN, reddit_posts \in RedditPostLists :
          \E news_articles \in NewsArticleLists, limit \in Limits :
              result = [ code |-> 0,
                         body |-> [ reddit_scraper |-> reddit_scraper,
                                    reddit_posts |-> reddit_posts,
                                    news_articles |-> news_articles,
                                    limit |-> limit ] ]
    /\ threads = [t \in 1..NumThreads |-> Idle]
    /\ validated = << >>

\* get_trending_topics applied to the posts and articles of InitTrends
NextTrends == trending

SpecTrends == InitTrends /\ [][NextTrends]_vars

\* _generate_recommendation applied to the proposals of InitRecommend
NextRecommend == \E session_id \in DOMAIN active_sessions : recommend(session_id)

SpecRecommend == InitRecommend /\ [][NextRecommend]_vars

\* the requests of deploy.py's server, one at a time
NextGenerate ==
    \/ \E query \in Queries, gemini_client \in BOOLEAN :
          \E first \in GeminiReplies, later \in LaterReplies :
              api_predict(query, gemini_client, <<first, later>>)
    \/ Tick

SpecGenerate == Init /\ [][NextGenerate]_vars

(***************************************************************************)
(* Properties                                                              *)
(***************************************************************************)
\* the proposal of a session
Session(s) == heap[active_sessions[s]]

\* the answer of a start request that created a session
IsStartAnswer(r) ==
    /\ r.code = 200
    /\ "current_step" \in DOMAIN r.body
    /\ r.body.current_step = 1

\* C1: with one request at a time, creation_steps of every session is never
\* empty, has at most 4 entries, and its k-th entry has step number k and
\* the name of step k.
C1_StepsOrdered ==
    \A s \in DOMAIN active_sessions :
        LET steps == Session(s).creation_steps
        IN  /\ Len(steps) \in 1..4
            /\ \A k \in 1..Len(steps) :
                  /\ steps[k].step_number = k
                  /\ steps[k].step_name =
                        CASE k = 1 -> "question_clarification"
                          [] k = 2 -> "timeframe"
                          [] k = 3 -> "resolution_criteria"
                          [] k = 4 -> "final_review"

C1_Witness ==
    \E s \in DOMAIN active_sessions :
        /\ Len(Session(s).creation_steps) = 4
        /\ Session(s).status = "ready"

\* C2: a proposal is a draft while fewer than four of its responses have
\* been validated, and ready once four have been.
C2_FourValidated ==
    \A r \in DOMAIN heap :
        /\ validated[r] < 4 => heap[r].status = "draft"
        /\ validated[r] >= 4 => heap[r].status = "ready"

\* C3: a continue request whose response the current step's validation
\* rejects leaves the number of steps, the current step number and the
\* proposal's description, end_date, resolution_criteria and status as they
\* were, and answers success = false with the rejection message and the
\* same step's prompt as retry_prompt.
C3_InvalidNoTransition ==
    [][ \A s \in DOMAIN active_sessions, r \in AllResponses :
          LET p == Session(s)
              k == Len(p.creation_steps)
              cur == p.creation_steps[k]
              v == validations[cur.step_name][r][now]
          IN  (~v.valid /\ continue_market_creation(s, r)) =>
                LET q == heap'[active_sessions'[s]]
                IN  /\ Len(q.creation_steps) = k
                    /\ q.creation_steps[k].step_number = cur.step_number
                    /\ q.description = p.description
                    /\ q.end_date = p.end_date
                    /\ q.resolution_criteria = p.resolution_criteria
                    /\ q.status = p.status
                    /\ result'.body.success = FALSE
                    /\ result'.body.message = v.message
                    /\ result'.body.retry_prompt = prompts[cur.step_number]
      ]_vars

C3_Witness ==
    /\ "retry_prompt" \in DOMAIN result.body
    /\ \E s \in DOMAIN active_sessions :
          LET steps == Session(s).creation_steps
          IN  /\ Len(steps) = 2
              /\ steps[2].user_input # NoneStr
              /\ ~steps[2].validation_result.valid

\* C4 (as amended): with one request at a time, a step that has a successor
\* in creation_steps holds a validated response and no later continue
\* request writes it; until then every request, rejected ones included,
\* writes the last step again.
C4_FrozenOnceSucceeded ==
    [][ \A r \in DOMAIN heap \cap DOMAIN heap' :
          LET old == heap[r].creation_steps
              new == heap'[r].creation_steps
          IN  (Len(new) >= Len(old) /\ ~IsStartAnswer(result')) =>
                \A k \in 1..(Len(old) - 1) :
                    /\ old[k].validation_result.valid
                    /\ old[k].user_input # NoneStr
                    /\ new[k] = old[k]
      ]_vars

C4_Witness ==
    \E r \in DOMAIN heap :
        LET steps == heap[r].creation_steps
        IN  /\ Len(steps) = 3
            /\ steps[3].user_input # NoneStr
            /\ ~steps[3].validation_result.valid

\* C4 (as claimed): once user_input and validation_result of a step are
\* set, no later continue request of the session writes them again.
C4_SetOnce ==
    [][ \A r \in DOMAIN heap \cap DOMAIN heap' :
          LET old == heap[r].creation_steps
              new == heap'[r].creation_steps
          IN  (Len(new) >= Len(old) /\ ~IsStartAnswer(result')) =>
                \A k \in 1..Len(old) :
                    old[k].user_input # NoneStr => new[k] = old[k]
      ]_vars

\* the responses that confirm at the final review
C5_Confirms(response) ==
    strip(lower(response)) \in
        { <<"c", "o", "n", "f", "i", "r", "m">>, <<"y", "e", "s">>,
          <<"p", "r", "o", "c", "e", "e", "d">>, <<"c", "r", "e", "a", "t", "e">> }

\* C5: every response to step 4 is accepted as valid, and the proposal of
\* a session whose response to step 4 is none of confirm, yes, proceed,
\* create is not finalized: its status stays draft.
C5_HeldForEdits ==
    \A r \in DOMAIN heap :
        LET steps == heap[r].creation_steps
        IN  (Len(steps) = 4 /\ steps[4].user_input # NoneStr) =>
              /\ steps[4].validation_result.valid
              /\ ~C5_Confirms(steps[4].user_input) => heap[r].status = "draft"

\* C6: whatever the interleaving of the continue requests of a session,
\* creation_steps has at most 4 entries and its k-th entry is step k (no
\* step number repeated or skipped).
C6_SequentialUnderThreads ==
    \A r \in DOMAIN heap :
        LET steps == heap[r].creation_steps
        IN  /\ Len(steps) <= 4
            /\ \A k \in 1..Len(steps) : steps[k].step_number = k

\* C7: a start request never creates its session under an id that is
\* already in active_sessions, so it leaves the proposal and the steps of
\* every unfinished session as they were.
C7_FreshSessionId ==
    [][ \A user_message \in Messages, user_id \in UserIds, h \in HashValues :
          \A intent_analysis \in
                  {fallback_analyses[user_message]} \cup LLMReplies :
              ( /\ intent_analysis.intent = "create_market"
                /\ start_market_creation(user_message, user_id, h, intent_analysis) )
              => /\ (h % SessionIdModulus) \notin DOMAIN active_sessions
                 /\ \A s \in DOMAIN active_sessions :
                       Session(s).status = "draft" =>
                           heap'[active_sessions'[s]] = Session(s)
      ]_vars

\* C8: a continue request on a session id leaves the proposal and the
\* steps of every other session as they were.
C8_OtherSessionsUnchanged ==
    [][ \A a \in SessionIds, r \in FewResponses :
          continue_market_creation(a, r) =>
            \A b \in DOMAIN active_sessions \ {a} :
                /\ b \in DOMAIN active_sessions'
                /\ heap'[active_sessions'[b]] = Session(b)
      ]_vars

C8_Witness ==
    /\ Cardinality(DOMAIN active_sessions) >= 2
    /\ "session_id" \in DOMAIN result.body
    /\ \E a, b \in DOMAIN active_sessions :
          /\ a # b
          /\ result.body.session_id = a
          /\ Len(Session(a).creation_steps) = 3
          /\ Len(Session(b).creation_steps) = 2

\* C9: a start request whose message is classified as anything other than
\* create_market answers success = false with example prompts and no
\* session id, and leaves active_sessions and the proposals as they were.
C9_RefusesOtherIntents ==
    [][ \A user_message \in Messages, user_id \in UserIds,
           h \in HashValues \cup CollidingHashes :
          \A intent_analysis \in
                  {fallback_analyses[user_message]} \cup LLMReplies :
              ( /\ intent_analysis.intent # "create_market"
                /\ start_market_creation(user_message, user_id, h, intent_analysis) )
              => /\ result'.code = 200
                 /\ result'.body.success = FALSE
                 /\ "suggestions" \in DOMAIN result'.body
                 /\ Len(result'.body.suggestions) > 0
                 /\ "session_id" \notin DOMAIN result'.body
                 /\ active_sessions' = active_sessions
                 /\ heap' = heap
      ]_vars

C9_Witness ==
    /\ "suggestions" \in DOMAIN result.body
    /\ active_sessions # << >>

\* a number of days, weeks or months
C10_IsRelativeDuration(response) ==
    /\ FirstDigits(response) # <<>>
    /\ \/ Contains(<<"d", "a", "y">>, lower(response))
       \/ Contains(<<"w", "e", "e", "k">>, lower(response))
       \/ Contains(<<"m", "o", "n", "t", "h">>, lower(response))

\* a date in one of the five formats
C10_IsAbsoluteDate(response) == parse_formats(strip(response)) # 0

\* C10: the response a timeframe step holds was accepted if and only if it
\* gives a number of days, weeks or months or is a date in one of the five
\* formats.
C10_TimeframeAccepted ==
    \A r \in DOMAIN heap :
        \A k \in 1..Len(heap[r].creation_steps) :
            LET step == heap[r].creation_steps[k]
            IN  (step.step_name = "timeframe" /\ step.user_input # NoneStr) =>
                  ( step.validation_result.valid <=>
                      \/ C10_IsRelativeDuration(step.user_input)
                      \/ C10_IsAbsoluteDate(step.user_input) )

\* C11: a response to step 1 is accepted if and only if it is not empty
\* once its whitespace is trimmed and contains a question mark; an accepted
\* response takes the session to step 2 and a rejected one leaves it at
\* step 1.
C11_QuestionAccepted ==
    [][ \A s \in DOMAIN active_sessions, r \in AllResponses :
          ( /\ Len(Session(s).creation_steps) = 1
            /\ continue_market_creation(s, r) ) =>
              LET q == heap'[active_sessions'[s]]
                  accepted == q.creation_steps[1].validation_result.valid
              IN  /\ accepted <=> (strip(r) # <<>> /\ \E i \in DOMAIN r : r[i] = "?")
                  /\ accepted =>
                        /\ Len(q.creation_steps) = 2
                        /\ q.creation_steps[2].step_number = 2
                        /\ result'.body.success
                        /\ result'.body.current_step = 2
                  /\ ~accepted =>
                        /\ Len(q.creation_steps) = 1
                        /\ ~result'.body.success
      ]_vars

C11_Witness ==
    /\ "current_step" \in DOMAIN result.body
    /\ result.body.current_step = 2
    /\ \E s \in DOMAIN active_sessions :
          /\ Len(Session(s).creation_steps) = 2
          /\ Session(s).creation_steps[1].user_input = r_question
          /\ Session(s).creation_steps[1].validation_result.valid

\* C12: in every state the end_date of every proposal is later than the
\* current time (whatever the minimum horizon added to it), so a date in
\* the past never becomes the end_date.
C12_EndDateInFuture ==
    \A r \in DOMAIN heap : heap[r].end_date > now

\* the suggestions a request of /api/predict was answered with
C14_BuiltFrom(suggestion, query) ==
    /\ Len(suggestion.title) >= Len(query)
    /\ SubSeq(suggestion.title, Len(suggestion.title) - Len(query) + 1,
              Len(suggestion.title)) = query

\* C13: every suggestion generate_prediction_markets returns has an end_date that is a date at or after the time of generation (the least the minimum horizon asks for), whatever end_date the text generation gave.
C13_EndDateNotBeforeGeneration ==
    [][ \A query \in Queries \ {<<>>}, gemini_client \in BOOLEAN :
          \A first \in GeminiReplies, later \in LaterReplies :
            api_predict(query, gemini_client, <<first, later>>) =>
                \A i \in DOMAIN result'.body.prediction_markets :
                    LET end_date == result'.body.prediction_markets[i].end_date
                    IN  \/ strptime_dmY(end_date) >= now
                        \/ parse_formats(end_date) >= now
      ]_vars

\* C14: when the text generation is not configured, raises, or answers what cannot be parsed into suggestions, the request is answered without error by exactly one suggestion built from the query, with ai_probability 0.5, confidence 0.3 and category 'general'.
C14_FallbackSuggestion ==
    [][ \A query \in Queries \ {<<>>}, gemini_client \in BOOLEAN :
          \A first \in GeminiReplies, later \in LaterReplies :
            ( /\ ~gemini_client \/ ~parses(first)
              /\ api_predict(query, gemini_client, <<first, later>>) ) =>
                /\ result'.code = 200
                /\ result'.body.count = 1
                /\ Len(result'.body.prediction_markets) = 1
                /\ C14_BuiltFrom(result'.body.prediction_markets[1], query)
                /\ result'.body.prediction_markets[1].ai_probability = 50
                /\ result'.body.prediction_markets[1].confidence = 30
                /\ result'.body.prediction_markets[1].category = "general"
      ]_vars

\* C15: when the first answer of the text generation fails to parse, the call is made again: if the second answer parses, its suggestions are returned and not the fallback.
C15_RetriesBeforeFallback ==
    [][ \A query \in Queries \ {<<>>} :
          \A first \in GeminiReplies, later \in LaterReplies :
            ( /\ ~parses(first)
              /\ parses(later)
              /\ api_predict(query, TRUE, <<first, later>>) ) =>
                result'.body.prediction_markets = later.data
      ]_vars

\* the last request was a create request answered with success
C16_Created == result.code = 200 /\ "market_id" \in DOMAIN result.body

\* C16: the create request reports success only for a session whose proposal has status 'ready'; for a session in 'draft' it reports no created market.
C16_CreatesOnlyReady ==
    [][ \A s \in SessionIds, hd \in {0, 1}, hi \in {0, 1} :
          (create_market(s, hd, hi) /\ result'.body.success) =>
              /\ s \in DOMAIN active_sessions
              /\ Session(s).status = "ready"
      ]_vars

\* C17: when the create request has reported success for a session, the status of its proposal is 'created', and a continue request that follows on that session changes no field of the proposal or of its steps.
C17_CreatedIsFrozen ==
    [][ /\ \A s \in SessionIds, hd \in {0, 1}, hi \in {0, 1} :
              (create_market(s, hd, hi) /\ result'.body.success) =>
                  heap'[active_sessions'[s]].status = "created"
        /\ \A s \in SessionIds, r \in FewResponses :
              ( /\ C16_Created
                /\ DOMAIN active_sessions = {s}
                /\ continue_market_creation(s, r) ) =>
                  heap'[active_sessions'[s]] = Session(s)
      ]_vars

\* C20: no request removes a session: every session id of the table is in the table after any start, continue or create request, a continue request on it is never answered 'Session not found', and a response that is valid is answered with success.
C20_SessionsStay ==
    [][ /\ DOMAIN active_sessions \subseteq DOMAIN active_sessions'
        /\ \A s \in DOMAIN active_sessions, r \in FewResponses :
              continue_market_creation(s, r) =>
                  /\ result'.body # not_found
                  /\ r = r_all => (result'.code = 200 /\ result'.body.success)
      ]_vars

\* two sessions, one finalized and one with a rejected response, after a create request was answered with success
C20_Witness ==
    /\ C16_Created
    /\ Cardinality(DOMAIN active_sessions) = 2
    /\ \E s \in DOMAIN active_sessions : Session(s).status = "ready"
    /\ \E s \in DOMAIN active_sessions :
          /\ Session(s).creation_steps[1].user_input = r_empty
          /\ ~Session(s).creation_steps[1].validation_result.valid

\* C18: a finalized proposal holds, as ai_probability, ai_confidence, key_factors, risk_factors and data_quality_score, the values predict_probability returns for its description and category.
C18_AnalysisFromModel ==
    \A r \in DOMAIN heap :
        heap[r].status = "ready" =>
            LET prediction == predict_probability(heap[r].description, heap[r].category)
            IN  /\ heap[r].ai_probability = prediction.probability
                /\ heap[r].ai_confidence = prediction.confidence
                /\ heap[r].key_factors = prediction.key_factors
                /\ heap[r].risk_factors = prediction.risk_factors
                /\ heap[r].data_quality_score = prediction.data_quality_score

\* C19: the recommendation is decided by ai_probability and ai_confidence alone: a confidence below 0.6 gives the moderate-confidence message whatever the probability; otherwise a probability above 0.7 gives the YES message, one below 0.3 the NO message, and any other, 0.3 and 0.7 included, the balanced message.
C19_Recommendation ==
    \A s \in DOMAIN active_sessions :
        "recommendation" \in DOMAIN result.body =>
            LET probability == Session(s).ai_probability
                confidence == Session(s).ai_confidence
                recommendation == result.body.recommendation
            IN  /\ confidence < 60 => recommendation = "moderate"
                /\ (confidence >= 60 /\ probability > 70) => recommendation = "yes"
                /\ (confidence >= 60 /\ probability < 30) => recommendation = "no"
                /\ (confidence >= 60 /\ probability >= 30 /\ probability <= 70) =>
                       recommendation = "balanced"

\* the balanced message for a probability of exactly 0.7 at a confidence of exactly 0.6
C19_Witness ==
    /\ "recommendation" \in DOMAIN result.body
    /\ result.body.recommendation = "balanced"
    /\ \E s \in DOMAIN active_sessions :
          /\ Session(s).ai_probability = 70
          /\ Session(s).ai_confidence = 60
          /\ Session(s).category = "politics"

\* C21: every answer that reports a failure has the shape {success: false, error: message} and an HTTP status of 4xx or 5xx; no failure is answered with status 200 or without an error field.
C21_UniformErrors ==
    ~result.body.success =>
        /\ result.code \in 400..599
        /\ DOMAIN result.body = {"success", "error"}

\* C22: the body of every answer of every endpoint, of success or of failure, has a boolean field 'success'.
C22_SuccessField ==
    /\ "success" \in DOMAIN result.body
    /\ result.body.success \in BOOLEAN

\* C25: for every description and category predict_probability returns a probability in [0.05, 0.95], a confidence in [0.3, 0.9], 3 key factors and 2 risk factors; a description that contains 'bitcoin' or 'crypto' gets probability 0.4, also when it contains 'will', 'likely' or 'expected'.
C25_PredictionBounds ==
    [][ \A description \in Descriptions \ {NoneStr}, category \in AnalyzeCategories :
          analyze_market(description, category) =>
              LET analysis == result'.body.analysis
              IN  /\ analysis.probability \in 5..95
                  /\ analysis.confidence \in 30..90
                  /\ Len(analysis.key_factors) = 3
                  /\ Len(analysis.risk_factors) = 2
                  /\ (\E word \in crypto_words : Contains(word, lower(description)))
                         => analysis.probability = 40
      ]_vars

\* a description with 'will' and 'bitcoin' analysed: probability 0.4
C25_Witness ==
    /\ "analysis" \in DOMAIN result.body
    /\ result.body.analysis =
           predict_probability(s_will_bitcoin, "politics")
    /\ result.body.analysis.probability = 40
    /\ result.body.analysis.confidence = 40

\* C23: the proposal of every session, from the draft to the finalized one, has an ai_probability strictly between 0 and 1 and an ai_confidence in [0.3, 0.9].
C23_AnalysisInRange ==
    \A s \in DOMAIN active_sessions :
        /\ Session(s).ai_probability \in 1..99
        /\ Session(s).ai_confidence \in 30..90

\* C26: whenever a response to the timeframe step is accepted, the end_date of the proposal is the date of that response (the date it gives, or now plus the days, weeks or months it states); it is not left as it was.
C26_EndDateFromResponse ==
    [][ \A s \in DOMAIN active_sessions, r \in AllResponses :
          LET k == Len(Session(s).creation_steps)
          IN  ( /\ Session(s).creation_steps[k].step_name = "timeframe"
                /\ continue_market_creation(s, r)
                /\ heap'[active_sessions'[s]].creation_steps[k].validation_result.valid ) =>
                  /\ parsed_dates[r][now].date # 0
                  /\ heap'[active_sessions'[s]].end_date = parsed_dates[r][now].date
      ]_vars

\* C27: once the step-4 response of a session has been processed, every further continue request on it, whatever the response, is answered with the finalization's answer and the same analysis values, appends no step and leaves the status 'ready'.
C27_FinalizationRepeats ==
    [][ \A s \in DOMAIN active_sessions, r \in AllResponses :
          ( /\ Session(s).status = "ready"
            /\ continue_market_creation(s, r) ) =>
              LET p == Session(s)
                  q == heap'[active_sessions'[s]]
              IN  /\ result'.code = 200
                  /\ result'.body.success
                  /\ result'.body.message = "Market proposal ready for creation!"
                  /\ result'.body.proposal.ai_analysis =
                        final_result(p).proposal.ai_analysis
                  /\ q.ai_probability = p.ai_probability
                  /\ q.ai_confidence = p.ai_confidence
                  /\ q.key_factors = p.key_factors
                  /\ q.risk_factors = p.risk_factors
                  /\ q.data_quality_score = p.data_quality_score
                  /\ Len(p.creation_steps) = 4
                  /\ Len(q.creation_steps) = 4
                  /\ q.status = "ready"
      ]_vars

\* a finalized session answered again after a fifth validated response, an empty one
C27_Witness ==
    \E s \in DOMAIN active_sessions :
        /\ Session(s).status = "ready"
        /\ validated[active_sessions[s]] = 5
        /\ Session(s).creation_steps[4].user_input = r_empty
        /\ result = ok(final_result(Session(s)))

\* the proposal field that belongs to the step of the given number
C28_FieldOf(step_number) ==
    CASE step_number = 1 -> "description"
      [] step_number = 2 -> "end_date"
      [] step_number = 3 -> "resolution_criteria"

\* C28: an accepted response to step 1, 2 or 3 changes, besides the list of steps, only the field of its step: description at step 1, end_date at step 2, resolution_criteria at step 3; category, the analysis fields, status, id and user_id are never changed.
C28_OnlyOwnField ==
    [][ \A s \in DOMAIN active_sessions, r \in AllResponses :
          LET p == Session(s)
              k == Len(p.creation_steps)
              step_number == p.creation_steps[k].step_number
          IN  ( /\ step_number \in 1..3
                /\ continue_market_creation(s, r)
                /\ heap'[active_sessions'[s]].creation_steps[k].validation_result.valid ) =>
                  \A f \in DOMAIN p \ {C28_FieldOf(step_number), "creation_steps"} :
                      heap'[active_sessions'[s]][f] = p[f]
      ]_vars

\* a session at step 3 whose accepted step-2 response, a date, is its end_date, with the description of step 1 and no resolution criteria yet
C28_Witness ==
    \E s \in DOMAIN active_sessions :
        /\ Len(Session(s).creation_steps) = 3
        /\ Session(s).creation_steps[2].user_input = r_past
        /\ Session(s).end_date = ymd2ord(2020, 1, 1)
        /\ Session(s).description = r_question
        /\ Session(s).resolution_criteria = <<>>
        /\ result.body.success /\ result.body.current_step = 3

\* C29: a continue request with a session id that is not in the table is answered success = false, 'Session not found', creates no session and changes no proposal; a create request with such an id is answered 404 and changes nothing.
C29_UnknownSession ==
    [][ \A s \in SessionIds \ DOMAIN active_sessions :
          /\ \A r \in FewResponses :
                continue_market_creation(s, r) =>
                    /\ ~result'.body.success
                    /\ result'.body.message =
                          "Session not found. Please start a new market creation."
                    /\ active_sessions' = active_sessions
                    /\ heap' = heap
          /\ \A hd \in {0, 1}, hi \in {0, 1} :
                create_market(s, hd, hi) =>
                    /\ result'.code = 404
                    /\ ~result'.body.success
                    /\ active_sessions' = active_sessions
                    /\ heap' = heap
      ]_vars

\* 'Session not found' answered while another session is at step 2
C29_Witness ==
    /\ result = ok(not_found)
    /\ Cardinality(DOMAIN active_sessions) = 1
    /\ \E s \in DOMAIN active_sessions : Len(Session(s).creation_steps) = 2

\* every post and article the two scrapers returned in a pass, as topics
C24_Collected ==
    (IF result.body.reddit_scraper
     THEN [ i \in DOMAIN result.body.reddit_posts |->
              _create_trending_topic_from_reddit(result.body.reddit_posts[i]) ]
     ELSE <<>>)
    \o [ i \in DOMAIN result.body.news_articles |->
           _create_trending_topic_from_news(result.body.news_articles[i]) ]

C24_Scores(topics) == [i \in DOMAIN topics |-> sort_key(topics[i])]

\* C24: get_trending_topics(limit) returns at most limit topics, in non-increasing order of engagement_score + market_potential, and they are the top ones of what the scrapers returned in that pass: nothing left out has a strictly higher score than a returned topic.
C24_TopTopics ==
    "topics" \in DOMAIN result.body =>
        /\ Len(result.body.topics) <= result.body.limit
        /\ \A i \in 1..(Len(result.body.topics) - 1) :
              sort_key(result.body.topics[i]) >= sort_key(result.body.topics[i + 1])
        /\ C24_Scores(result.body.topics) =
              C24_Scores(first_of(sorted_descending(C24_Collected),
                                  Len(result.body.topics)))

\* the number of posts get_trending_topics makes topics of
C30_RedditCount ==
    IF result.body.reddit_scraper
    THEN Cardinality({ i \in DOMAIN result.body.reddit_posts :
                         i <= 10 /\ result.body.reddit_posts[i].score > 1000 })
    ELSE 0

C30_IsReddit(topic) == topic.source[1] = "r/"

\* C30: in every list get_trending_topics returns all topics from Reddit come before all topics from news; a Reddit topic has a score above 1000, a news topic an engagement_score of 1.0 and a market_potential of at most 1.0; when limit is at most the number of Reddit topics, no news topic is returned.
C30_RedditFirst ==
    "topics" \in DOMAIN result.body =>
        /\ \A i \in DOMAIN result.body.topics, j \in DOMAIN result.body.topics :
              (i < j /\ C30_IsReddit(result.body.topics[j])) =>
                  C30_IsReddit(result.body.topics[i])
        /\ \A i \in DOMAIN result.body.topics :
              IF C30_IsReddit(result.body.topics[i])
              THEN result.body.topics[i].engagement_score > 1000 * 100
              ELSE /\ result.body.topics[i].engagement_score = 100
                   /\ result.body.topics[i].ai_analysis.market_potential <= 100
        /\ result.body.limit <= C30_RedditCount =>
              \A i \in DOMAIN result.body.topics : C30_IsReddit(result.body.topics[i])

\* a Reddit topic of market_potential 0.5 returned before a news topic of market_potential 0.7
C30_Witness ==
    /\ "topics" \in DOMAIN result.body
    /\ Len(result.body.topics) = 2
    /\ C30_IsReddit(result.body.topics[1])
    /\ result.body.topics[1].ai_analysis.market_potential = 50
    /\ ~C30_IsReddit(result.body.topics[2])
    /\ result.body.topics[2].ai_analysis.market_potential = 70
    /\ result.body.limit = 2
====
